---- MODULE Spec2Model ----
(***************************************************************************)
(* Model of smc.base.model: the identity locator, the per-instance cache,  *)
(* the ETag-based update/delete protocol and the element factory, run      *)
(* against one remote resource held by the SMC server.                     *)
(***************************************************************************)
EXTENDS Integers, Sequences, FiniteSets, TLC

VARIABLES srvVer, srvJson, srvExists, srvType, obj, last

vars == <<srvVer, srvJson, srvExists, srvType, obj, last>>

\* ------------------------------------------------------------------ bounds
\* The server accepts updates until the resource has reached this revision.
MaxVer == 2

\* Lists are appended to while they are shorter than this.
MaxTags == 2

\* ------------------------------------------------------------- vocabulary
H == "/elements/12"

\* An href other than the resource's that the server may report on an update.
MovedHref == "/elements/99"
UpdateHrefs == {H, MovedHref}
NoHref == "None"
NoEtag == 0

Names == {"kali", "ghost"}
NewName == "kali2"

NoMeta == [name |-> "None", href |-> NoHref, type |-> "None"]
EmptyJson == [k \in {} |-> 0]

\* Meta(href, name=None, type=None): the identity triple.
Meta(name, href, type) == [name |-> name, href |-> href, type |-> type]

\* Classes of the element hierarchy that the model instantiates.
\* "none" marks a slot in which no instance has been constructed yet.
ElementClasses == {"Element", "AdminUser"}
HasLocator(cls) == cls \in ElementClasses

\* typeof class attribute: AdminUser declares one, Element and SubElement do not.
HasTypeof(cls) == cls = "AdminUser"
TypeofOf(cls) == IF cls = "AdminUser" THEN "admin_user" ELSE "None"

\* Registry._registry: resource-kind tag -> class, filled by class definition.
Registered == {"admin_user"}
RegistryGet(t) == IF t = "admin_user" THEN "AdminUser" ELSE "None"

lookup_class_dropdefault(typeof) == RegistryGet(typeof)

lookup_class(typeof) ==
    IF typeof \in Registered THEN RegistryGet(typeof) ELSE "Element"

\* ---------------------------------------------------------------- payloads
SelfLinks(t) == {[rel |-> "self", href |-> H, type |-> t]}

\* The relations the user-account operations follow.
UserRels == {"enable_disable", "change_password", "change_engine_password"}
ActionHref(rel) == H \o "/" \o rel

\* The links the server reports: an administrator account also offers the
\* account actions.
Links(t) ==
    SelfLinks(t) \cup
    (IF t = "admin_user"
     THEN {[rel |-> r, href |-> ActionHref(r), type |-> t] : r \in UserRels}
     ELSE {})

InitPayload(t, sys) ==
    [name |-> "kali", system |-> sys, link |-> Links(t), tags |-> <<"b">>]

\* util.find_type_from_self: the type of the payload's self link.
find_type_from_self(links) ==
    IF \E l \in links : l.rel = "self"
    THEN (CHOOSE l \in links : l.rel = "self").type
    ELSE "None"

\* Keys of the payload whose values are lists.
ListKeys == {"tags"}

\* util.merge_dicts(dict1, dict2, append_lists): the given keys are set or
\* overwritten; with append_lists a given list is appended to the list the
\* payload already holds under that key.
merge_dicts(d, kw, append_lists) ==
    [k \in DOMAIN d \cup DOMAIN kw |->
        IF k \notin DOMAIN kw THEN d[k]
        ELSE IF append_lists /\ k \in ListKeys /\ k \in DOMAIN d
             THEN d[k] \o kw[k]
             ELSE kw[k]]

\* Keyword arguments offered to modify_attribute.
FieldChoices == {[comment |-> "test"], [name |-> NewName]}

\* List-valued keyword arguments offered to modify_attribute, with and without
\* the append_lists flag.
ListFieldChoices ==
    {[tags |-> <<"a">>], [tags |-> <<"a">>, append_lists |-> TRUE],
     [tags |-> <<"c">>, append_lists |-> FALSE]}

\* The links of a payload that also offers an export relation.
LinksWithExport(t) ==
    SelfLinks(t) \cup {[rel |-> "export", href |-> H \o "/export", type |-> t]}

\* Explicit payload offered to update(json=...).
OverrideJson(t) ==
    [name |-> "kali", system |-> FALSE, link |-> LinksWithExport(t),
     comment |-> "ovr"]

\* ---------------------------------------------------------------- instance
NoCache == [st |-> "absent", etag |-> NoEtag, json |-> EmptyJson]
EmptyCache == [st |-> "empty", etag |-> NoEtag, json |-> EmptyJson]
FullCache(etag, json) == [st |-> "full", etag |-> etag, json |-> json]

NoRes == [built |-> FALSE, rels |-> {}]

\* An instance: its class, _name, meta, cache and resource attributes; how it
\* was constructed is kept for reference.
NoObj == [cls |-> "none", by |-> "none", name |-> "None", meta |-> NoMeta,
          cache |-> NoCache, res |-> NoRes]

\* The last handler that ran: on which instance, with which keyword arguments,
\* the transport calls it issued, the exception it raised and the href or
\* token it returned.
\* An SMCResult as far as the handlers read it: href, msg and code.
NoResult == [href |-> NoHref, msg |-> "None", code |-> 0]

\* No HTTP error response was turned into a failure descriptor.
NoFailure == [ok |-> TRUE]

NoLast == [inst |-> "none", op |-> "init", arg |-> EmptyJson, calls |-> <<>>,
           err |-> "none", emsg |-> <<>>, rhref |-> NoHref, retag |-> NoEtag,
           reply |-> "none", counted |-> 0, populated |-> 0,
           result |-> NoResult, failure |-> NoFailure]

\* ------------------------------------------------- call context of a handler
\* A handler runs on a context: the instance, the server as the handler sees
\* it, the transport calls issued so far, the exception raised (if any), the
\* last transport response and the value returned; `counted` is what the
\* handler added to counters['cache'], `populated` how often it stored a
\* fetched pair in the cache, `failure` the HTTP error response a failure
\* descriptor was built from, `ret` a return value that is neither href nor
\* token.
Ctx(o, ver, json, exists, t) ==
    [o |-> o, ver |-> ver, json |-> json, exists |-> exists, type |-> t,
     calls |-> <<>>, err |-> "none", emsg |-> <<>>,
     resp |-> [etag |-> NoEtag, json |-> EmptyJson],
     result |-> NoResult, uhref |-> H,
     rhref |-> NoHref, rjson |-> EmptyJson, retag |-> NoEtag,
     counted |-> 0, populated |-> 0, failure |-> NoFailure, ret |-> "none"]

Raise(c, e) == [c EXCEPT !.err = e]

\* raise e(msg): the message is kept as the text and the values formatted in.
RaiseMsg(c, e, msg) == [c EXCEPT !.err = e, !.emsg = msg]

Call(op, href, etag, json) ==
    [op |-> op, href |-> href, etag |-> etag, json |-> json]

Log(c, call) == [c EXCEPT !.calls = Append(@, call)]

\* Sequencing of statements: F runs on the context v evaluates to.
Bind(v, F(_)) == CHOOSE r \in {F(x) : x \in {v}} : TRUE

\* Sequencing with exceptions: F runs unless v ended in a raised exception.
Then(v, F(_)) ==
    CHOOSE r \in {IF x.err # "none" THEN x ELSE F(x) : x \in {v}} : TRUE

\* ---------------------------------------------------- transport collaborator
\* search(nameFilter, kindFilter) -> list of identity triples
fetch_href_by_name(c, name, kind) ==
    IF c.exists /\ c.json["name"] = name /\ c.type = kind
    THEN <<Meta(name, H, kind)>>
    ELSE <<>>

\* fetch(href) -> (versionToken, payloadOrNone, statusCode)
ReadOk(c, href, ok) == ok /\ c.exists /\ href = H

\* SMCRequest(href=href).read(): the response is left in the context.
SMCRequest_read(c, href, ok) ==
    Bind(Log(c, Call("fetch", href, NoEtag, EmptyJson)), LAMBDA x :
        IF ReadOk(x, href, ok)
        THEN [x EXCEPT !.resp = [etag |-> x.ver, json |-> x.json]]
        ELSE [x EXCEPT !.resp = [etag |-> NoEtag, json |-> EmptyJson]])

\* prepared_request(exception, href=href).read(): raises when the SMC reports
\* an error.
prepared_read(c, exception, href, ok) ==
    Bind(SMCRequest_read(c, href, ok), LAMBDA x :
        IF ReadOk(x, href, ok) THEN x ELSE Raise(x, exception))

\* update(href, payload, versionToken): accepted only with the current token.
UpdateAccepted(c, href, etag, ok) ==
    ok /\ c.exists /\ href \in {H, ActionHref("enable_disable")} /\ etag = c.ver

\* prepared_request(exception, href, json, etag).update()
prepared_update(c, exception, href, json, etag, ok) ==
    Bind(Log(c, Call("update", href, etag, json)), LAMBDA x :
        IF UpdateAccepted(x, href, etag, ok)
        THEN [x EXCEPT !.ver = @ + 1, !.json = json,
                       !.result = [href |-> x.uhref, msg |-> "None", code |-> 200]]
        ELSE Raise(x, exception))

\* delete(href, versionToken): accepted only with the current token.
DeleteAccepted(c, href, etag, ok) ==
    ok /\ c.exists /\ href = H /\ etag = c.ver

\* prepared_request(exception, href, headers={'if-match': etag}).delete()
prepared_delete(c, exception, href, etag, ok) ==
    Bind(Log(c, Call("delete", href, etag, EmptyJson)), LAMBDA x :
        IF DeleteAccepted(x, href, etag, ok)
        THEN [x EXCEPT !.exists = FALSE]
        ELSE Raise(x, exception))

\* ------------------------------------------------- failures reported by SMC
\* Text values: "None" stands for an absent value, "" for the empty string.
Truthy(s) == s \notin {"None", ""}

\* An HTTP error response: status code, whether the content type is
\* application/json, the message and details of a JSON body (details absent,
\* a list or a string) and the raw text.
ErrorResponse(code, isJson, message, dkind, dlist, dstr, text) ==
    [ok |-> FALSE, status_code |-> code, json |-> isJson, message |-> message,
     dkind |-> dkind, dlist |-> dlist, dstr |-> dstr, text |-> text]

\* ' '.join(details)
RECURSIVE JoinSpace(_)
JoinSpace(l) ==
    IF l = <<>> THEN ""
    ELSE IF Len(l) = 1 THEN l[1]
    ELSE l[1] \o " " \o JoinSpace(Tail(l))

\* SMCOperationFailure.parse_error: code, message and details of the failure.
parse_error(response) ==
    IF response.json
    THEN [code |-> response.status_code,
          message |-> response.message,
          details |-> IF response.dkind = "list" THEN JoinSpace(response.dlist)
                      ELSE IF response.dkind = "str" THEN response.dstr
                      ELSE "None"]
    ELSE [code |-> response.status_code,
          message |-> IF Truthy(response.text) THEN response.text
                      ELSE "HTTP error code: " \o ToString(response.status_code)
                           \o ", no message",
          details |-> "None"]

\* SMCOperationFailure.__str__
failure_str(f) ==
    IF Truthy(f.message) /\ Truthy(f.details)
    THEN f.message \o " " \o f.details
    ELSE IF Truthy(f.details) THEN f.details
    ELSE f.message

\* self.smcresult.msg = self.__str__()
smcresult_msg(response) == failure_str(parse_error(response))

\* self.smcresult.code = self.code
smcresult_code(response) == parse_error(response).code

\* ----------------------------------------------------------------- creation
\* The href the server gives a resource it creates.
CreatedHref == "/elements/13"

\* The replies of the server to a create: created, or one of the errors.
\* The reply is named by its position in this sequence.
CreateReplies ==
    <<[ok |-> TRUE, status_code |-> 201, json |-> TRUE, message |-> "None",
       dkind |-> "none", dlist |-> <<>>, dstr |-> "None", text |-> ""],
      ErrorResponse(400, TRUE, "Not allowed", "list", <<"name", "exists">>, "None", ""),
      ErrorResponse(400, TRUE, "Not allowed", "none", <<>>, "None", ""),
      ErrorResponse(409, TRUE, "None", "str", <<>>, "dependency", ""),
      ErrorResponse(409, TRUE, "None", "none", <<>>, "None", ""),
      ErrorResponse(500, FALSE, "None", "none", <<>>, "None", "Internal error"),
      ErrorResponse(500, FALSE, "None", "none", <<>>, "None", "")>>

\* fetch_entry_point(typeof): the creation entry point of a resource kind.
fetch_entry_point(typeof) == "/elements/" \o typeof

\* SMCRequest(href, json).create(): the SMCResult is left in the context; on
\* an error it is the failure's smcresult.
SMCRequest_create(c, href, json, response) ==
    Bind(Log(c, Call("create", href, NoEtag, json)), LAMBDA x :
        IF response.ok
        THEN [x EXCEPT !.result = [href |-> CreatedHref, msg |-> "None",
                                   code |-> response.status_code]]
        ELSE [x EXCEPT !.failure = response,
                       !.result = [href |-> NoHref,
                                   msg |-> smcresult_msg(response),
                                   code |-> smcresult_code(response)]])

\* ElementCreator(cls, json)
ElementCreator(c, cls, json, response) ==
    Bind(SMCRequest_create(c, fetch_entry_point(TypeofOf(cls)), json, response),
         LAMBDA x :
            IF Truthy(x.result.msg)
            THEN RaiseMsg(x, "CreateElementFailed", <<x.result.msg>>)
            ELSE [x EXCEPT !.rhref = x.result.href])

\* The payload AdminUser.create(name) builds.
AdminUser_json(name) ==
    [name |-> name, enabled |-> TRUE, allow_sudo |-> FALSE,
     engine_target |-> <<>>, local_admin |-> FALSE, superuser |-> FALSE]

\* ------------------------------------------------------------- href access
bind_meta_skip(c, found) == c

\* instance.meta = Meta(**element.json[0])
bind_meta(c, found) == [c EXCEPT !.o.meta = found[1]]

\* A failed search remembered as an identity without href.
not_found_memoized(c, name, typeof) ==
    RaiseMsg([c EXCEPT !.o.meta = Meta(name, NoHref, typeof)],
             "ElementNotFound", <<"Cannot find specified element", name, typeof>>)

\* raise ElementNotFound('Cannot find specified element: {}, type: {}')
not_found(c, name, typeof) ==
    RaiseMsg(c, "ElementNotFound",
             <<"Cannot find specified element", name, typeof>>)

\* raise ElementNotFound('This class does not have the required attribute
\* and cannot be referenced directly, type: {}')
not_addressable(c) ==
    RaiseMsg(c, "ElementNotFound",
             <<"This class does not have the required attribute", c.o.cls>>)

\* ElementLocator.__get__
ElementLocator_get(c) ==
    Bind(c, LAMBDA x :
        IF x.o.meta # NoMeta
        THEN [x EXCEPT !.rhref = x.o.meta.href]
        ELSE IF HasTypeof(x.o.cls)
             THEN LET found == fetch_href_by_name(x, x.o.name, TypeofOf(x.o.cls))
                      x1 == Log(x, Call("search", NoHref, NoEtag, EmptyJson))
                  IN  IF Len(found) > 0
                      THEN [bind_meta(x1, found) EXCEPT !.rhref = found[1].href]
                      ELSE not_found(x1, x.o.name, TypeofOf(x.o.cls))
             ELSE not_addressable(x))

\* SubElement.href
SubElement_href(c) ==
    Bind(c, LAMBDA x :
        [x EXCEPT !.rhref = IF x.o.meta # NoMeta THEN x.o.meta.href ELSE NoHref])

\* self.href on any instance
href_get(c) ==
    Then(c, LAMBDA x :
        IF HasLocator(x.o.cls) THEN ElementLocator_get(x) ELSE SubElement_href(x))

\* ---------------------------------------------------------------- resource
\* counters.update(cache=1)
count_call(c) == [c EXCEPT !.counted = @ + 1]

\* The body of ElementBase.resource once self.data has returned: one
\* attribute per link of the payload.
build_links(c) ==
    Bind(c, LAMBDA x :
        IF "link" \notin DOMAIN x.o.cache.json
        THEN Raise(x, "TypeError")
        ELSE [x EXCEPT !.o.res =
                 [built |-> TRUE,
                  rels |-> {[rel |-> l.rel, href |-> l.href] :
                               l \in x.o.cache.json["link"]}]])

\* ElementBase.resource (cached_property): built from the payload's links on
\* the first access and kept in the instance dict from then on. Its body
\* reads self.data, served here from the cache already populated.
resource_get(c) ==
    Then(c, LAMBDA x :
        IF x.o.res.built THEN x ELSE build_links(count_call(x)))

\* -------------------------------------------------------------------- cache
\* ElementBase.cache (cached_property): a Cache object is created on the first
\* access and stored in the instance dict.
cache_attr(c) ==
    Then(c, LAMBDA x :
        IF x.o.cache.st = "absent" THEN [x EXCEPT !.o.cache = EmptyCache] ELSE x)

\* self._cache = (result.etag, result.json)
store_pair(c) ==
    [c EXCEPT !.o.cache = FullCache(c.resp.etag, c.resp.json),
              !.populated = @ + 1]

needs_fetch_always(cache, force) == TRUE

\* if self._cache is None or kwargs.get('force_refresh')
needs_fetch(cache, force) == cache.st = "empty" \/ force

\* Cache.__call__ fetching the href the identity holds, resolved or not.
Cache_call_unresolved(c, force, fOk) ==
    Then(cache_attr(c), LAMBDA cc :
    Bind(count_call(cc), LAMBDA c0 :
        IF needs_fetch(c0.o.cache, force)
        THEN Then(prepared_read(c0, "FetchElementFailed", c0.o.meta.href, fOk),
                  LAMBDA c2 : resource_get(store_pair(c2)))
        ELSE c0))

\* Cache.__call__ that forgets the cached pair before it fetches.
Cache_call_reset(c, force, fOk) ==
    Then(cache_attr(c), LAMBDA cc :
    Bind(count_call(cc), LAMBDA c0 :
        IF needs_fetch(c0.o.cache, force)
        THEN Then(href_get([c0 EXCEPT !.o.cache = EmptyCache]), LAMBDA c1 :
             Then(prepared_read(c1, "FetchElementFailed", c1.rhref, fOk),
                  LAMBDA c2 : resource_get(store_pair(c2))))
        ELSE c0))

\* Cache.__call__
Cache_call(c, force, fOk) ==
    Then(cache_attr(c), LAMBDA cc :
    Bind(count_call(cc), LAMBDA c0 :
        IF needs_fetch(c0.o.cache, force)
        THEN Then(href_get(c0), LAMBDA c1 :
             Then(prepared_read(c1, "FetchElementFailed", c1.rhref, fOk),
                  LAMBDA c2 : resource_get(store_pair(c2))))
        ELSE c0))

\* Cache.data / ElementBase.data
data_get(c, fOk) ==
    Then(Cache_call(c, FALSE, fOk), LAMBDA x :
        [x EXCEPT !.rjson = x.o.cache.json])

needs_backfill_always(cache) == TRUE

needs_backfill_never(cache) == FALSE

\* if self.__call__()[0] is None
needs_backfill(cache) == cache.etag = NoEtag

\* A backfill whose token is not kept in the cache.
store_token_drop(c) == c

\* self._cache = (etag.etag, self._cache[1])
store_token(c) == [c EXCEPT !.o.cache.etag = c.resp.etag]

\* Cache.etag / ElementBase.etag
etag_get(c, fOk, bOk) ==
    Then(Cache_call(c, FALSE, fOk), LAMBDA c1 :
        IF needs_backfill(c1.o.cache)
        THEN Then(href_get(c1), LAMBDA c2 :
             Then(prepared_read(c2, "FetchElementFailed", c2.rhref, bOk),
                  LAMBDA c3 :
                    Bind(store_token(c3), LAMBDA c4 :
                        [c4 EXCEPT !.retag = c4.o.cache.etag])))
        ELSE [c1 EXCEPT !.retag = c1.o.cache.etag])

\* ------------------------------------------------------------ ElementBase
\* ElementBase.attr_by_name
attr_by_name(c, fOk) == data_get(c, fOk)

del_cache_skip(c) == c

\* del self.cache: removes the Cache object from the instance dict; raises
\* AttributeError when the instance dict holds none.
del_cache(c) ==
    Bind(c, LAMBDA x :
        IF x.o.cache.st = "absent" THEN Raise(x, "AttributeError")
        ELSE [x EXCEPT !.o.cache = NoCache])

\* Keyword arguments of update(): each override is given or not.
NoKw == [href |-> NoHref, hasJson |-> FALSE, json |-> EmptyJson, etag |-> NoEtag]

\* update() taking the href of the server's answer as the instance's own.
return_href_rebind(c) ==
    [c EXCEPT !.rhref = c.result.href, !.o.meta.href = c.result.href]

\* return prepared_request(exception, **kwargs).update().href
return_href(c) == [c EXCEPT !.rhref = c.result.href]

\* update() dropping the cache only once the server has acknowledged.
update_invalidate_on_ack(c, kw, fOk, bOk, wOk) ==
    Then(c, LAMBDA c0 :
    Then(IF kw.href # NoHref THEN [c0 EXCEPT !.rhref = kw.href] ELSE href_get(c0),
         LAMBDA c1 :
    Then(IF kw.hasJson THEN [c1 EXCEPT !.rjson = kw.json] ELSE data_get(c1, fOk),
         LAMBDA c2 :
    Then(IF kw.etag # NoEtag THEN [c2 EXCEPT !.retag = kw.etag]
         ELSE etag_get(c2, fOk, bOk),
         LAMBDA c3 :
    Then(prepared_update(c3, "UpdateElementFailed",
                         c1.rhref, c2.rjson, c3.retag, wOk),
         LAMBDA c4 : del_cache(return_href(c4)))))))

\* ElementBase.update
update(c, kw, fOk, bOk, wOk) ==
    Then(c, LAMBDA c0 :
    Then(IF kw.href # NoHref THEN [c0 EXCEPT !.rhref = kw.href] ELSE href_get(c0),
         LAMBDA c1 :
    Then(IF kw.hasJson THEN [c1 EXCEPT !.rjson = kw.json] ELSE data_get(c1, fOk),
         LAMBDA c2 :
    Then(IF kw.etag # NoEtag THEN [c2 EXCEPT !.retag = kw.etag]
         ELSE etag_get(c2, fOk, bOk),
         LAMBDA c3 :
    Then(del_cache(c3), LAMBDA c4 :
    Then(prepared_update(c4, "UpdateElementFailed",
                         c1.rhref, c2.rjson, c3.retag, wOk),
         LAMBDA c5 : return_href(c5)))))))

\* delete() that also drops the local cache once the server has deleted.
delete_and_clear(c, fOk, bOk, wOk) ==
    Then(href_get(c), LAMBDA c1 :
    Then(etag_get(c1, fOk, bOk), LAMBDA c2 :
    Then(prepared_delete(c2, "DeleteElementFailed", c1.rhref, c2.retag, wOk),
         LAMBDA c3 : del_cache(c3))))

\* ElementBase.delete
delete(c, fOk, bOk, wOk) ==
    Then(href_get(c), LAMBDA c1 :
    Then(etag_get(c1, fOk, bOk), LAMBDA c2 :
         prepared_delete(c2, "DeleteElementFailed", c1.rhref, c2.retag, wOk)))

is_system_never(json) == FALSE

\* self.data.get('system') is True
is_system(json) == "system" \in DOMAIN json /\ json["system"] = TRUE

\* kwargs.pop('append_lists', False) that leaves the flag among the fields.
pop_append_lists_keep(kwargs) == kwargs

\* kwargs after kwargs.pop('append_lists', False)
pop_append_lists(kwargs) ==
    [k \in DOMAIN kwargs \ {"append_lists"} |-> kwargs[k]]

\* The value kwargs.pop('append_lists', False) returns.
append_lists_of(kwargs) ==
    IF "append_lists" \in DOMAIN kwargs THEN kwargs["append_lists"] ELSE FALSE

\* modify_attribute() whose merge is lost before update() is called.
modify_attribute_nomerge(c, fields, fOk, bOk, wOk) ==
    Then(data_get(c, fOk), LAMBDA c1 :
        IF is_system(c1.rjson) THEN Raise(c1, "ModificationFailed")
        ELSE update(c1, NoKw, fOk, bOk, wOk))

\* ElementBase.modify_attribute
modify_attribute(c, fields, fOk, bOk, wOk) ==
    Then(data_get(c, fOk), LAMBDA c1 :
        IF is_system(c1.rjson) THEN Raise(c1, "ModificationFailed")
        ELSE update([c1 EXCEPT !.o.cache.json =
                        merge_dicts(@, pop_append_lists(fields),
                                    append_lists_of(fields))],
                    NoKw, fOk, bOk, wOk))

\* rename() that sets the local name before the modification is sent.
rename_eager(c, name, fOk, bOk, wOk) ==
    modify_attribute([c EXCEPT !.o.name = name], [name |-> name], fOk, bOk, wOk)

\* Element.rename
rename(c, name, fOk, bOk, wOk) ==
    Then(modify_attribute(c, [name |-> name], fOk, bOk, wOk), LAMBDA x :
        [x EXCEPT !.o.name = name])

\* self.resource on an instance whose cache may be empty: the self.data in
\* the body of `resource` is the call that fetches.
resource_attr(c, fOk) ==
    Then(c, LAMBDA x :
        IF x.o.res.built THEN x
        ELSE Then(Cache_call(x, FALSE, fOk), LAMBDA y : build_links(y)))

\* ElementResource attribute access, self.resource.<rel>: the href stored
\* under the relation, or __getattr__ raising when there is none.
resource_rel(c, rel, fOk) ==
    Then(resource_attr(c, fOk), LAMBDA x :
        IF \E l \in x.o.res.rels : l.rel = rel
        THEN [x EXCEPT !.rhref = (CHOOSE l \in x.o.res.rels : l.rel = rel).href]
        ELSE RaiseMsg(x, "ResourceNotFound",
                      <<"Resource requested: %r is not available on this element.",
                        rel>>))

\* An export answered by the server: prepared_request(ActionCommandFailed,
\* href, filename).create()
prepared_create(c, exception, href, ok) ==
    Bind(Log(c, Call("create", href, NoEtag, EmptyJson)), LAMBDA x :
        IF ok /\ x.exists
        THEN [x EXCEPT !.result = [href |-> NoHref, msg |-> "None", code |-> 202]]
        ELSE Raise(x, exception))

\* export() that lets the missing link reach the caller.
export_raising(c, fOk, cOk) ==
    Then(resource_rel(c, "export", fOk), LAMBDA y :
    Then(prepared_create(y, "ActionCommandFailed", y.rhref, cOk),
         LAMBDA z : [z EXCEPT !.ret = "task"]))

\* Element.export: the task of the export, or [] when the link table has no
\* export relation.
export(c, fOk, cOk) ==
    Bind(resource_rel(c, "export", fOk), LAMBDA x :
        IF x.err = "ResourceNotFound"
        THEN [x EXCEPT !.err = "none", !.emsg = <<>>, !.ret = "[]"]
        ELSE Then(x, LAMBDA y :
             Then(prepared_create(y, "ActionCommandFailed", y.rhref, cOk),
                  LAMBDA z : [z EXCEPT !.ret = "task"])))

\* prepared_request(exception, href=href, params=params).update(): a request
\* that carries parameters and neither payload nor token; the password is not
\* part of the payload.
prepared_params_update(c, exception, href, params, ok) ==
    Bind(Log(c, Call("update", href, NoEtag, params)), LAMBDA x :
        IF ok /\ x.exists /\ href \in {ActionHref(r) : r \in UserRels}
        THEN [x EXCEPT !.result = [href |-> NoHref, msg |-> "None", code |-> 200]]
        ELSE Raise(x, exception))

\* UserCommon.enable_disable
enable_disable(c, fOk, bOk, wOk) ==
    Then(resource_rel(c, "enable_disable", fOk), LAMBDA x :
        update(x, [NoKw EXCEPT !.href = x.rhref], fOk, bOk, wOk))

\* UserCommon.change_password
change_password(c, password, fOk, wOk) ==
    Then(resource_rel(c, "change_password", fOk), LAMBDA x :
        prepared_params_update(x, "ModificationFailed", x.rhref,
                               [password |-> password], wOk))

\* AdminUser.change_engine_password
change_engine_password(c, password, fOk, wOk) ==
    Then(resource_rel(c, "change_engine_password", fOk), LAMBDA x :
        prepared_params_update(x, "ModificationFailed", x.rhref,
                               [password |-> password], wOk))

\* ---------------------------------------------------------------- factory
\* e.cache = Cache(e, element.json, element.etag)
seed_cache(o, json, etag) == [o EXCEPT !.cache = FullCache(etag, json)]

\* Element.__init__(name, **meta) with a full identity
NewElement(cls, by, name, href, type) ==
    [cls |-> cls, by |-> by, name |-> name, meta |-> Meta(name, href, type),
     cache |-> NoCache, res |-> NoRes]

\* ElementFactory: the context's instance is the one returned (NoObj for None).
ElementFactory(c, href, ok) ==
    Bind(SMCRequest_read(c, href, ok), LAMBDA x :
        IF DOMAIN x.resp.json # {}
        THEN LET istype == find_type_from_self(x.resp.json["link"])
                 e == NewElement(lookup_class(istype), "factory",
                                 x.resp.json["name"], href, istype)
             IN  [x EXCEPT !.o = seed_cache(e, x.resp.json, x.resp.etag),
                           !.rhref = href]
        ELSE x)

\* ------------------------------------------------------------------ actions
\* A handler issues at most one read (the cache's fetch or the token backfill,
\* never both), so one flag rOk decides the outcome of its read and wOk that
\* of its write.
\* One remote resource and one local instance of it; a second client of the
\* same resource acts through PeerWrite.
Init ==
    /\ srvType \in {"admin_user", "host"}
    /\ srvVer = 1
    /\ \E sys \in BOOLEAN : srvJson = InitPayload(srvType, sys)
    /\ srvExists = TRUE
    /\ obj = NoObj
    /\ last = NoLast

Start == Ctx(obj, srvVer, srvJson, srvExists, srvType)

\* What is kept of a handler that ended in context c.
LastOf(inst, op, arg, c, reply) ==
    [inst |-> inst, op |-> op, arg |-> arg, calls |-> c.calls, err |-> c.err,
     emsg |-> c.emsg, rhref |-> c.rhref, retag |-> c.retag, reply |-> reply,
     counted |-> c.counted, populated |-> c.populated, result |-> c.result,
     failure |-> c.failure]

\* The state after handler `op` ran on the instance with keyword arguments
\* `arg` and ended in context c.
FinishArg(op, arg, c) ==
    /\ obj' = c.o
    /\ srvVer' = c.ver
    /\ srvJson' = c.json
    /\ srvExists' = c.exists
    /\ last' = LastOf("self", op, arg, c, c.ret)
    /\ UNCHANGED srvType

Finish(op, c) == FinishArg(op, EmptyJson, c)

Built == obj.cls # "none"

\* AdminUser('kali') / Element('kali'): constructed from a name only.
NewByName ==
    /\ ~Built
    /\ \E cls \in ElementClasses, n \in Names :
         Finish("new",
                [Start EXCEPT !.o = [cls |-> cls, by |-> "name", name |-> n,
                                     meta |-> NoMeta, cache |-> NoCache,
                                     res |-> NoRes]])

\* SubElement(): a reference-only instance constructed without identity.
NewSubElement ==
    /\ ~Built
    /\ Finish("new",
              [Start EXCEPT !.o = [cls |-> "SubElement", by |-> "bare",
                                   name |-> "None", meta |-> NoMeta,
                                   cache |-> NoCache, res |-> NoRes]])

\* AdminUser.create(name), called before the instance is constructed.
Create ==
    /\ ~Built
    /\ \E n \in Names, r \in DOMAIN CreateReplies :
         LET c == ElementCreator(Start, "AdminUser", AdminUser_json(n),
                                 CreateReplies[r])
         IN  /\ last' = LastOf("class", "create", AdminUser_json(n), c,
                                IF CreateReplies[r].ok THEN "created"
                                ELSE "error")
             /\ UNCHANGED <<srvVer, srvJson, srvExists, srvType, obj>>

\* Element.from_meta(**meta) on an identity triple returned by a search.
FromMeta ==
    /\ ~Built
    /\ srvExists
    /\ Finish("from_meta",
              [Start EXCEPT !.o = NewElement(lookup_class(srvType), "meta",
                                             srvJson["name"], H, srvType)])

\* x = ElementFactory(href) / Element.from_href(href)
Factory ==
    /\ ~Built
    /\ \E ok \in BOOLEAN : Finish("factory", ElementFactory(Start, H, ok))

\* ElementBase._add_cache(data): seeds the payload last seen, without a token.
AddCache ==
    /\ Built
    /\ Finish("add_cache",
              [Start EXCEPT !.o = seed_cache(obj, srvJson, NoEtag)])

\* A handler that may send an update starts knowing the href the server will
\* report back for it; the choice matters only when the update is accepted.
StartUpdate(h) == [Start EXCEPT !.uhref = h]
ReplyHrefs(wOk) == IF wOk THEN UpdateHrefs ELSE {H}

\* The outcome of the read a handler issues is open only when it issues one:
\* with payload and token cached no handler but a forced refresh reads.
ReadFlags ==
    IF obj.cache.st = "full" /\ obj.cache.etag # NoEtag THEN {TRUE} ELSE BOOLEAN

Href ==
    /\ Built
    /\ Finish("href", href_get(Start))

Data ==
    /\ Built
    /\ \E fOk \in ReadFlags : Finish("data", data_get(Start, fOk))

\* instance.cache(force_refresh=True)
Refresh ==
    /\ Built
    /\ \E fOk \in BOOLEAN : Finish("refresh", Cache_call(Start, TRUE, fOk))

Etag ==
    /\ Built
    /\ \E rOk \in ReadFlags : Finish("etag", etag_get(Start, rOk, rOk))

AttrByName ==
    /\ Built
    /\ \E fOk \in ReadFlags : Finish("attr_by_name", attr_by_name(Start, fOk))

\* The server accepts a write only below the revision bound.
WriteFlags == {w \in BOOLEAN : w => srvVer < MaxVer}

KwChoices ==
    {[href |-> NoHref, hasJson |-> j,
      json |-> IF j THEN OverrideJson(srvType) ELSE EmptyJson,
      etag |-> e] : j \in BOOLEAN, e \in {NoEtag, srvVer}}
    \cup {[href |-> H, hasJson |-> TRUE, json |-> OverrideJson(srvType),
            etag |-> srvVer]}

Update ==
    /\ Built
    /\ \E kw \in KwChoices, rOk \in ReadFlags, wOk \in WriteFlags :
       \E h \in ReplyHrefs(wOk) :
         FinishArg(IF kw.etag = NoEtag THEN "update" ELSE "update_etag", kw,
                   update(StartUpdate(h), kw, rOk, rOk, wOk))

ModifyAttribute ==
    /\ Built
    /\ \E fields \in FieldChoices, rOk \in ReadFlags, wOk \in WriteFlags :
       \E h \in ReplyHrefs(wOk) :
         FinishArg("modify_attribute", fields,
                   modify_attribute(StartUpdate(h), fields, rOk, rOk, wOk))

\* element.rename(name)
Rename ==
    /\ Built
    /\ HasLocator(obj.cls)
    /\ \E rOk \in ReadFlags, wOk \in WriteFlags :
       \E h \in ReplyHrefs(wOk) :
         FinishArg("rename", [name |-> NewName],
                   rename(StartUpdate(h), NewName, rOk, rOk, wOk))

Delete ==
    /\ Built
    /\ \E rOk \in ReadFlags, wOk \in BOOLEAN :
         Finish("delete", delete(Start, rOk, rOk, wOk))

\* Another client's instance of the same resource, built from the identity a
\* search returns, reads the resource and has a modification accepted.
PeerWrite ==
    /\ srvExists
    /\ srvVer < MaxVer
    /\ \E fields \in FieldChoices :
         LET peer == NewElement(lookup_class(srvType), "meta",
                                srvJson["name"], H, srvType)
             c == modify_attribute([Start EXCEPT !.o = peer], fields,
                                   TRUE, TRUE, TRUE)
         IN  /\ c.err = "none"
             /\ srvVer' = c.ver
             /\ srvJson' = c.json
             /\ last' = LastOf("peer", "modify_attribute", fields, c, "none")
             /\ UNCHANGED <<srvExists, srvType, obj>>

Next ==
    \/ Create
    \/ NewByName
    \/ NewSubElement
    \/ FromMeta
    \/ Factory
    \/ AddCache
    \/ Href
    \/ Data
    \/ Refresh
    \/ Etag
    \/ AttrByName
    \/ Update
    \/ ModifyAttribute
    \/ Rename
    \/ Delete
    \/ PeerWrite

Spec == Init /\ [][Next]_vars

\* element.export()
Export ==
    /\ Built
    /\ HasLocator(obj.cls)
    /\ \E fOk \in ReadFlags, cOk \in BOOLEAN :
         Finish("export", export(Start, fOk, cOk))

\* admin.enable_disable()
EnableDisable ==
    /\ Built
    /\ obj.cls = "AdminUser"
    /\ \E rOk \in ReadFlags, wOk \in WriteFlags :
         Finish("enable_disable", enable_disable(Start, rOk, rOk, wOk))

Passwords == {"pw"}

\* admin.change_password(password)
ChangePassword ==
    /\ Built
    /\ obj.cls = "AdminUser"
    /\ \E pw \in Passwords, rOk \in ReadFlags, wOk \in BOOLEAN :
         FinishArg("change_password", [password |-> pw],
                   change_password(Start, pw, rOk, wOk))

\* admin.change_engine_password(password)
ChangeEnginePassword ==
    /\ Built
    /\ obj.cls = "AdminUser"
    /\ \E pw \in Passwords, rOk \in ReadFlags, wOk \in BOOLEAN :
         FinishArg("change_engine_password", [password |-> pw],
                   change_engine_password(Start, pw, rOk, wOk))

\* The operations that follow a relation of the link table, with the
\* operations that construct an instance and change the links it sees.
NextLinks ==
    \/ NewByName
    \/ FromMeta
    \/ AddCache
    \/ Data
    \/ Refresh
    \/ Update
    \/ Export
    \/ EnableDisable
    \/ ChangePassword
    \/ ChangeEnginePassword

SpecLinks == Init /\ [][NextLinks]_vars

\* The payload a handler works on: the cached one, else the server's.
SeenPayload == IF obj.cache.st = "full" THEN obj.cache.json ELSE srvJson

\* modify_attribute(tags=[...]) and modify_attribute(tags=[...],
\* append_lists=...), on a list that can still grow.
ModifyAttributeLists ==
    /\ Built
    /\ \E fields \in ListFieldChoices, rOk \in ReadFlags, wOk \in WriteFlags :
         /\ ("tags" \in DOMAIN SeenPayload => Len(SeenPayload["tags"]) < MaxTags)
         /\ FinishArg("modify_attribute", fields,
                      modify_attribute(Start, fields, rOk, rOk, wOk))

\* The operations on list-valued fields.
NextLists ==
    \/ NewByName
    \/ FromMeta
    \/ AddCache
    \/ Data
    \/ ModifyAttribute
    \/ ModifyAttributeLists

SpecLists == Init /\ [][NextLists]_vars

\* --------------------------------------------------------------- properties
\* Number of transport calls of kind op in a call log.
Count(calls, op) == Cardinality({k \in 1..Len(calls) : calls[k].op = op})

\* The handler that just ran on the instance is one of ops.
Ran(ops) == last.inst = "self" /\ last.op \in ops
RanNext(ops) == last'.inst = "self" /\ last'.op \in ops

UpdateOps == {"update", "update_etag", "modify_attribute"}

\* C1: on an instance constructed from a name only, an href access that finds
\* the identity unbound and whose search matches issues exactly one search and
\* binds the returned identity; an href access on a bound identity issues no
\* call at all and returns the bound href; no handler unbinds or rebinds it.
C1_HrefMemoized ==
    [][(obj.by = "name" /\ obj'.by = "name") =>
        /\ (obj.meta # NoMeta => obj'.meta = obj.meta)
        /\ (RanNext({"href"}) /\ obj.meta = NoMeta /\ last'.err = "none" =>
              /\ Count(last'.calls, "search") = 1
              /\ Len(last'.calls) = 1
              /\ obj'.meta # NoMeta
              /\ obj'.meta.href = last'.rhref
              /\ last'.rhref = H)
        /\ (RanNext({"href"}) /\ obj.meta # NoMeta =>
              /\ last'.calls = <<>>
              /\ last'.err = "none"
              /\ last'.rhref = obj.meta.href)]_vars

\* A later href access on a name-only instance answered without any search.
C1_Witness ==
    /\ Ran({"href"})
    /\ obj.by = "name"
    /\ last.calls = <<>>
    /\ last.err = "none"
    /\ last.rhref = H

\* C2: a data access on a populated cache issues no fetch and leaves the cache
\* as it is; a successful data access on an unpopulated cache issues exactly
\* one fetch and populates it; the reads in between (href, data, attr_by_name)
\* keep the cache populated with the same pair.
C2_DataCacheReuse ==
    [][/\ (RanNext({"data", "attr_by_name"}) /\ obj.cache.st = "full" =>
              /\ last'.calls = <<>>
              /\ last'.err = "none"
              /\ obj'.cache = obj.cache)
       /\ (RanNext({"data", "attr_by_name"}) /\ obj.cache.st # "full"
             /\ last'.err = "none" =>
              /\ Count(last'.calls, "fetch") = 1
              /\ obj'.cache.st = "full")
       /\ (RanNext({"href"}) => obj'.cache = obj.cache)]_vars

\* A data access served from a cache that an earlier fetch populated.
C2_Witness ==
    /\ Ran({"data"})
    /\ obj.by \in {"name", "meta"}
    /\ last.calls = <<>>
    /\ last.err = "none"
    /\ obj.cache.st = "full"
    /\ obj.cache.etag # NoEtag

\* C3: after a successful update() or modify_attribute() the instance holds no
\* cache, and a data access on an instance without a populated cache whose
\* href is resolved issues exactly one fetch, of that href.
C3_UpdateInvalidates ==
    [][/\ (RanNext(UpdateOps) /\ last'.err = "none" => obj'.cache.st = "absent")
       /\ (RanNext({"data"}) /\ obj.cache.st # "full" /\ obj.meta # NoMeta =>
              /\ Len(last'.calls) = 1
              /\ last'.calls[1].op = "fetch"
              /\ last'.calls[1].href = obj.meta.href)]_vars

\* A modify_attribute() the server accepted, leaving the instance uncached.
C3_Witness ==
    /\ Ran({"modify_attribute"})
    /\ last.err = "none"
    /\ obj.cache.st = "absent"
    /\ srvVer > 1

C5_StaleWriteRejected ==
    [][(/\ RanNext({"update", "modify_attribute", "delete"})
        /\ obj.cache.st = "full"
        /\ obj.cache.etag # NoEtag
        /\ obj.cache.etag < srvVer
        /\ last'.err \notin {"ModificationFailed"}) =>
          /\ Len(last'.calls) = 1
          /\ last'.calls[1].op = (IF last'.op = "delete" THEN "delete" ELSE "update")
          /\ last'.calls[1].etag = obj.cache.etag
          /\ last'.err = (IF last'.op = "delete" THEN "DeleteElementFailed"
                          ELSE "UpdateElementFailed")
          /\ srvVer' = srvVer
          /\ srvJson' = srvJson
          /\ srvExists' = srvExists]_vars

\* A delete() rejected because another client wrote after the last fetch.
C5_Witness ==
    /\ Ran({"delete"})
    /\ last.err = "DeleteElementFailed"
    /\ srvExists
    /\ Len(last.calls) = 1
    /\ last.calls[1].etag # NoEtag
    /\ last.calls[1].etag < srvVer

WriteOps == {"update", "delete"}

\* The write call of a call log (its last call), when it issued one.
HasWrite(calls) == Len(calls) > 0 /\ calls[Len(calls)].op \in WriteOps
WriteOf(calls) == calls[Len(calls)]

\* C6: every update() without a token override and every delete() that sends
\* its write sends it with a token the server issued: the one fetched by this
\* very call when it had to fetch (empty cache, or a cache seeded without a
\* token), else the one in the instance's cache; never with an absent one.
C6_WriteTokenObserved ==
    [][RanNext({"update", "modify_attribute", "delete"}) /\ HasWrite(last'.calls) =>
          LET w == WriteOf(last'.calls)
              fetched == Count(last'.calls, "fetch")
          IN  /\ w.etag # NoEtag
              /\ w.etag \in 1..srvVer
              /\ w.etag = (IF fetched > 0 THEN srvVer ELSE obj.cache.etag)
              /\ (obj.cache.st # "full" \/ obj.cache.etag = NoEtag =>
                    /\ fetched = 1
                    /\ \E k \in 1..(Len(last'.calls) - 1) :
                          last'.calls[k].op = "fetch")
              /\ (obj.cache.st = "full" /\ obj.cache.etag # NoEtag => fetched = 0)
              /\ (last'.op = "delete" => obj'.cache.etag = w.etag)]_vars

\* An update() on an uncached instance that fetched the token and was accepted.
C6_Witness ==
    /\ Ran({"update"})
    /\ last.err = "none"
    /\ Count(last.calls, "fetch") = 1
    /\ HasWrite(last.calls)
    /\ WriteOf(last.calls).etag = srvVer - 1

SystemFlag(json) == "system" \in DOMAIN json /\ json["system"] = TRUE

\* C7 as stated: modify_attribute() on a system resource raises
\* modification-forbidden without any network call, whatever the cache state.
C7_Original ==
    [][(/\ RanNext({"modify_attribute"})
        /\ SystemFlag(IF obj.cache.st = "full" THEN obj.cache.json ELSE srvJson)) =>
          /\ last'.err = "ModificationFailed"
          /\ last'.calls = <<>>]_vars

\* C7 amended: modify_attribute() on a system resource never issues an update
\* and never succeeds. With the payload cached it raises modification-forbidden
\* with no network call and no change of the instance; with no payload cached
\* it first loads it (one fetch, after one search when the href is unresolved)
\* and raises modification-forbidden once the fetch has succeeded.
C7_SystemNeverUpdated ==
    [][RanNext({"modify_attribute"}) =>
        /\ (obj.cache.st = "full" /\ SystemFlag(obj.cache.json) =>
              /\ last'.err = "ModificationFailed"
              /\ last'.calls = <<>>
              /\ obj' = obj)
        /\ (obj.cache.st # "full" /\ SystemFlag(srvJson) =>
              /\ last'.err # "none"
              /\ Count(last'.calls, "update") = 0
              /\ srvVer' = srvVer /\ srvJson' = srvJson
              /\ (last'.err = "ModificationFailed" =>
                    /\ Count(last'.calls, "fetch") = 1
                    /\ Count(last'.calls, "search") =
                          (IF obj.meta = NoMeta THEN 1 ELSE 0)
                    /\ obj'.cache.st = "full"))]_vars

\* modify_attribute() refused on a system resource after it fetched the payload.
C7_Witness ==
    /\ Ran({"modify_attribute"})
    /\ last.err = "ModificationFailed"
    /\ Count(last.calls, "fetch") = 1
    /\ SystemFlag(obj.cache.json)

InstanceOps ==
    {"data", "attr_by_name", "etag", "update", "update_etag",
     "modify_attribute", "delete"}

C9_FactoryRoundTrip ==
    [][/\ (RanNext({"factory"}) /\ obj'.cls # "none" =>
              /\ Len(last'.calls) = 1
              /\ last'.calls[1].op = "fetch"
              /\ last'.calls[1].href = H
              /\ obj'.cls = (IF srvType = "admin_user" THEN "AdminUser"
                             ELSE "Element")
              /\ obj'.meta.href = H
              /\ obj'.meta.type = srvType
              /\ obj'.cache.st = "full"
              /\ obj'.cache.json = srvJson
              /\ obj'.cache.etag = srvVer)
       /\ (RanNext({"factory"}) /\ srvExists /\ obj'.cls = "none" =>
              last'.calls[1].op = "fetch" /\ obj' = obj)
       /\ (Ran({"factory"}) /\ obj.cls # "none" /\ RanNext({"data", "etag"}) =>
              /\ last'.calls = <<>>
              /\ last'.err = "none"
              /\ obj'.cache = obj.cache
              /\ (last'.op = "etag" => last'.retag = obj.cache.etag))]_vars

\* The factory returned the generic class for an unregistered kind, seeded.
C9_Witness ==
    /\ Ran({"factory"})
    /\ srvType = "host"
    /\ obj.cls = "Element"
    /\ obj.cache.st = "full"
    /\ obj.cache.etag = srvVer

\* C10: modify_attribute(**fields) issues at most one update; it issues one
\* exactly when it ends in the server's verdict, which it does on every
\* non-system resource whose payload, token and href it holds; the update
\* carries the payload (cached, or fetched by the call) with the fields set or
\* overwritten and every other key unchanged, the instance's href and the
\* instance's token; an accepted one becomes the server's payload.
C10_ModifyAttributeMerges ==
    [][RanNext({"modify_attribute"}) =>
        LET payload == IF obj.cache.st = "full" THEN obj.cache.json ELSE srvJson
            token == IF obj.cache.st = "full" /\ obj.cache.etag # NoEtag
                     THEN obj.cache.etag ELSE srvVer
            f == [k \in DOMAIN last'.arg \ {"append_lists"} |-> last'.arg[k]]
            n == Count(last'.calls, "update")
            w == WriteOf(last'.calls)
        IN  /\ n <= 1
            /\ (last'.err \in {"none", "UpdateElementFailed"} <=> n = 1)
            /\ (n = 1 =>
                  /\ w.op = "update"
                  /\ DOMAIN w.json = DOMAIN payload \cup DOMAIN f
                  /\ \A k \in DOMAIN f \ ListKeys : w.json[k] = f[k]
                  /\ \A k \in DOMAIN payload \ DOMAIN f : w.json[k] = payload[k]
                  /\ w.href = obj'.meta.href
                  /\ w.href = H
                  /\ w.etag = token
                  /\ ~SystemFlag(payload))
            /\ (last'.err = "none" => srvJson' = w.json /\ srvVer' = srvVer + 1)
            /\ ((/\ ~SystemFlag(payload)
                 /\ obj.cache.st = "full"
                 /\ obj.cache.etag # NoEtag
                 /\ obj.meta # NoMeta) => n = 1)]_vars

\* modify_attribute(comment="test") accepted with the merged body.
C10_Witness ==
    /\ Ran({"modify_attribute"})
    /\ last.err = "none"
    /\ last.arg = [comment |-> "test"]
    /\ Count(last.calls, "update") = 1
    /\ srvJson["comment"] = "test"
    /\ srvJson["name"] = "kali"
    /\ srvJson["system"] = FALSE

\* The append_lists flag a modify_attribute() call was given (default: not).
AppendFlag(arg) == "append_lists" \in DOMAIN arg /\ arg["append_lists"] = TRUE

\* C11: the update a modify_attribute(tags=[...]) call sends carries, under
\* tags, the given list alone by default, and the payload's list followed by
\* the given list when append_lists=True was passed (tags=[b] with tags=[a]
\* gives [b,a] with the flag and [a] without); no body sent by
\* modify_attribute() has an append_lists key.
C11_ListReplaceOrAppend ==
    [][RanNext({"modify_attribute"}) /\ HasWrite(last'.calls) =>
        LET payload == IF obj.cache.st = "full" THEN obj.cache.json ELSE srvJson
            arg == last'.arg
            w == WriteOf(last'.calls)
        IN  /\ "append_lists" \notin DOMAIN w.json
            /\ ("tags" \in DOMAIN arg =>
                  /\ w.json["tags"] =
                        (IF AppendFlag(arg) /\ "tags" \in DOMAIN payload
                         THEN payload["tags"] \o arg["tags"]
                         ELSE arg["tags"])
                  /\ (arg["tags"] = <<"a">> /\ "tags" \in DOMAIN payload
                        /\ payload["tags"] = <<"b">> =>
                        w.json["tags"] = (IF AppendFlag(arg) THEN <<"b", "a">>
                                          ELSE <<"a">>)))]_vars

\* modify_attribute(tags=["a"], append_lists=True) accepted on tags=["b"].
C11_Witness ==
    /\ Ran({"modify_attribute"})
    /\ last.err = "none"
    /\ AppendFlag(last.arg)
    /\ srvJson["tags"] = <<"b", "a">>
    /\ "append_lists" \notin DOMAIN srvJson

\* The name+kind search for the instance's name would return no match.
SearchMisses ==
    ~(srvExists /\ srvJson["name"] = obj.name /\ srvType = TypeofOf(obj.cls))

AllOps ==
    {"href", "data", "attr_by_name", "etag", "refresh", "update", "update_etag",
     "modify_attribute", "delete"}

\* C12: on a name-only instance of a primary resource whose identity is
\* unbound and whose search returns no match, an href access issues one search
\* and fails with not-found naming the instance's name and kind, and leaves
\* the instance as it was (nothing bound, cache untouched), so that the next
\* href access searches again; whatever handler runs into that search fails
\* with the same error after exactly that one call, with no fetch, no
\* identity bound and no cache populated.
C12_SearchMissNotFound ==
    [][(/\ obj.by = "name"
        /\ HasTypeof(obj.cls)
        /\ obj.meta = NoMeta
        /\ SearchMisses
        /\ RanNext(AllOps)) =>
          /\ (last'.op = "href" =>
                /\ last'.err = "ElementNotFound"
                /\ last'.calls = <<Call("search", NoHref, NoEtag, EmptyJson)>>
                /\ obj' = obj)
          /\ (Count(last'.calls, "search") > 0 =>
                /\ last'.err = "ElementNotFound"
                /\ last'.emsg = <<"Cannot find specified element", obj.name,
                                  TypeofOf(obj.cls)>>
                /\ Len(last'.calls) = 1
                /\ obj'.meta = NoMeta
                /\ (obj.cache.st # "full" => obj'.cache.st # "full")
                /\ (obj.cache.st = "empty" => obj'.cache.st = "empty"))
          /\ Count(last'.calls, "fetch") = 0]_vars

\* An href access that fails again after an earlier data access had failed on
\* the same search and left the cache empty.
C12_Witness ==
    /\ Ran({"href"})
    /\ last.err = "ElementNotFound"
    /\ last.emsg = <<"Cannot find specified element", "ghost", "admin_user">>
    /\ obj.meta = NoMeta
    /\ obj.cache.st = "empty"

\* The instance has neither a bound identity nor a resource-kind tag.
Unaddressable == Built /\ obj.meta = NoMeta /\ ~HasTypeof(obj.cls)

\* C13 as stated: on an instance with neither a bound identity nor a
\* resource-kind tag an href access fails with not-found saying the type is
\* not directly addressable, and no handler issues a transport call with an
\* absent href or without having resolved one.
C13_UnaddressableNotFound ==
    [][Unaddressable /\ RanNext(AllOps) =>
          /\ (last'.op = "href" =>
                /\ last'.err = "ElementNotFound"
                /\ last'.emsg = <<"This class does not have the required attribute",
                                  obj.cls>>)
          /\ \A k \in 1..Len(last'.calls) : last'.calls[k].href # NoHref]_vars

\* C14 as stated: ElementCreator issues exactly one create call, against the
\* creation entry point of the kind and with the payload; it returns the new
\* href when the server reports success and raises creation-failed with the
\* server's message when the server reports a failure.
C14_CreateReturnsOrRaises ==
    [][last'.op = "create" =>
          /\ last'.calls = <<Call("create", "/elements/admin_user", NoEtag,
                                  last'.arg)>>
          /\ (last'.reply = "created" =>
                last'.err = "none" /\ last'.rhref = CreatedHref)
          /\ (last'.reply = "error" =>
                /\ last'.err = "CreateElementFailed"
                /\ Len(last'.emsg) = 1
                /\ Truthy(last'.emsg[1]))]_vars

\* C15: once the instance has an href (given at construction or resolved by
\* a search), no handler changes it, whether it succeeds or fails and
\* whatever href the server reports for an update: the identity stays as it
\* is, and a later href access returns that same href.
C15_HrefStable ==
    [][Built /\ obj.meta # NoMeta /\ obj.meta.href # NoHref =>
          /\ obj'.meta = obj.meta
          /\ obj'.cls = obj.cls
          /\ (RanNext({"href"}) =>
                last'.err = "none" /\ last'.rhref = obj.meta.href)]_vars

\* An accepted rename for which the server reported another href.
C15_Witness ==
    /\ Ran({"rename"})
    /\ last.err = "none"
    /\ last.rhref = MovedHref
    /\ obj.name = NewName
    /\ obj.meta.href = H
    /\ obj.by = "name"

\* The cache was seeded with a payload and no token.
Seeded == obj.cache.st = "full" /\ obj.cache.etag = NoEtag

\* What every token-needing handler does on a seeded cache: unless the href
\* cannot be resolved it issues exactly one fetch, of the instance's href,
\* and a write it sends comes after that fetch and carries the fetched token.
BackfillBeforeWrite ==
    /\ (last'.err # "ElementNotFound" =>
          /\ Count(last'.calls, "fetch") = 1
          /\ \A k \in 1..Len(last'.calls) :
                last'.calls[k].op = "fetch" => last'.calls[k].href = obj'.meta.href)
    /\ (HasWrite(last'.calls) =>
          /\ last'.calls[Len(last'.calls) - 1].op = "fetch"
          /\ WriteOf(last'.calls).etag = srvVer
          /\ WriteOf(last'.calls).etag # NoEtag)

\* A token read on a cache that holds a token issues no call.
TokenReadFromCache ==
    obj.cache.st = "full" /\ obj.cache.etag # NoEtag /\ RanNext({"etag"}) =>
        last'.calls = <<>> /\ last'.retag = obj.cache.etag

\* C16 as stated: on a cache seeded without a token, etag, update and delete
\* backfill the token by one read before any write, the write carries it, and
\* once the handler has succeeded the cache holds the token, so that later
\* token reads fetch nothing.
C16_Original ==
    [][/\ (Seeded /\ RanNext({"etag", "update", "delete"}) =>
              /\ BackfillBeforeWrite
              /\ (last'.err = "none" =>
                    obj'.cache.st = "full" /\ obj'.cache.etag = srvVer))
       /\ TokenReadFromCache]_vars

\* C16 amended: as stated for etag and delete; an update on a seeded cache
\* also backfills before it writes and sends the fetched token, but it drops
\* the cache with the backfilled token before sending, so the token read that
\* follows an update fetches payload and token again.
C16_BackfillOnce ==
    [][/\ (Seeded /\ RanNext({"etag", "update", "delete"}) =>
              /\ BackfillBeforeWrite
              /\ (last'.err = "none" /\ last'.op # "update" =>
                    /\ obj'.cache.st = "full"
                    /\ obj'.cache.etag = srvVer
                    /\ obj'.cache.json = obj.cache.json)
              /\ (last'.op = "update" /\ last'.err # "FetchElementFailed"
                     /\ last'.err # "ElementNotFound" =>
                    obj'.cache.st = "absent"))
       /\ TokenReadFromCache
       /\ (obj.cache.st = "absent" /\ obj.meta # NoMeta /\ RanNext({"etag"}) =>
              Count(last'.calls, "fetch") = 1)]_vars

\* A delete accepted with the token that its own backfill had just fetched.
C16_Witness ==
    /\ Ran({"delete"})
    /\ last.err = "none"
    /\ Len(last.calls) >= 2
    /\ last.calls[Len(last.calls) - 1].op = "fetch"
    /\ WriteOf(last.calls).etag = srvVer
    /\ obj.cache.st = "full"
    /\ obj.cache.etag = srvVer

\* The relation names and URIs of the links of a payload.
LinkTableOf(json) == {[rel |-> l.rel, href |-> l.href] : l \in json["link"]}

\* C17 as stated: whenever a handler has populated the cache (a first fetch, a
\* re-fetch after an update, a forced refresh) the link table of the instance
\* is the one of the payload now cached, and a successful update leaves the
\* instance without a link table.
C17_LinkTableRebuilt ==
    [][/\ (/\ RanNext(AllOps \cup {"rename"})
           /\ obj'.cache.st = "full"
           /\ Count(last'.calls, "fetch") > 0
           /\ (obj.cache.st # "full" \/ (last'.op = "refresh" /\ last'.err = "none"))) =>
              /\ obj'.res.built
              /\ obj'.res.rels = LinkTableOf(obj'.cache.json)
       /\ (RanNext(UpdateOps \cup {"rename"}) /\ last'.err = "none" =>
              ~obj'.res.built)]_vars

\* C18 as stated: ElementFactory(href) either returns an instance or raises
\* fetch-failed; a fetch the server fails never ends in no instance and no
\* error.
C18_FactoryFailureRaised ==
    [][RanNext({"factory"}) =>
          /\ Count(last'.calls, "fetch") = 1
          /\ (obj'.cls = "none" => last'.err = "FetchElementFailed")
          /\ (last'.err = "none" => obj'.cls # "none")]_vars

\* The handlers that send a mutating call, and the call each of them sends.
WriteHandlers ==
    {"update", "update_etag", "modify_attribute", "rename", "delete", "create"}

MutatingOf(op) ==
    IF op = "delete" THEN "delete" ELSE IF op = "create" THEN "create" ELSE "update"

CallKinds == {"search", "fetch", "update", "delete", "create"}

\* No transport call is attempted twice by one invocation, and the mutating
\* call, the handler's own, is the last call of the invocation.
NoSecondAttempt(calls, op) ==
    /\ \A kind \in CallKinds : Count(calls, kind) <= 1
    /\ \A k \in 1..Len(calls) :
          calls[k].op \in {"update", "delete", "create"} =>
              calls[k].op = MutatingOf(op) /\ k = Len(calls)

\* The error a handler ended in was raised by its last transport call.
RaisedByLastCall(calls, err) ==
    /\ (err = "FetchElementFailed" => calls[Len(calls)].op = "fetch")
    /\ (err = "ElementNotFound" /\ calls # <<>> => calls[Len(calls)].op = "search")
    /\ (err = "UpdateElementFailed" => calls[Len(calls)].op = "update")
    /\ (err = "DeleteElementFailed" => calls[Len(calls)].op = "delete")
    /\ (err = "CreateElementFailed" => calls[Len(calls)].op = "create")

\* The invocation of a write handler attempts no transport call twice, and
\* whatever error it ends in comes from the last call it made.
NoRetry ==
    [][last'.op \in WriteHandlers /\ last'.inst # "peer" =>
          /\ NoSecondAttempt(last'.calls, last'.op)
          /\ RaisedByLastCall(last'.calls, last'.err)]_vars

\* C19 as stated: an invocation of update(), delete() or ElementCreator()
\* issues at most one mutating call and attempts no transport call twice; a
\* failure of the mutating call, or of the search or fetch before it, is
\* raised to the caller at once.
C19_NoRetryFailureSurfaced ==
    [][last'.op \in WriteHandlers /\ last'.inst # "peer" =>
          /\ NoSecondAttempt(last'.calls, last'.op)
          /\ RaisedByLastCall(last'.calls, last'.err)
          /\ (Count(last'.calls, "update") = 1 /\ srvVer' = srvVer =>
                last'.err = "UpdateElementFailed")
          /\ (Count(last'.calls, "delete") = 1 /\ srvExists' =>
                last'.err = "DeleteElementFailed")
          /\ (last'.reply = "error" => last'.err = "CreateElementFailed")]_vars

\* C20: on a name-only instance of a primary resource whose identity is
\* unbound, whose cache is not populated and whose search matches, a data
\* access issues exactly two calls, the search and then the fetch of the href
\* the search returned, and leaves the identity bound; when the fetch is
\* served the cache holds the fetched pair, otherwise the access raises
\* fetch-failed. Whatever the handler, such an instance never issues a fetch
\* with an absent href, nor one on an unbound identity without the search
\* right before it.
C20_SearchThenFetch ==
    [][obj.by = "name" /\ HasTypeof(obj.cls) =>
          /\ ((/\ RanNext({"data"})
               /\ obj.meta = NoMeta
               /\ obj.cache.st # "full"
               /\ ~SearchMisses) =>
                (/\ last'.calls = <<Call("search", NoHref, NoEtag, EmptyJson),
                                    Call("fetch", H, NoEtag, EmptyJson)>>
                 /\ obj'.meta = Meta(obj.name, H, TypeofOf(obj.cls))
                 /\ last'.err \in {"none", "FetchElementFailed"}
                 /\ (last'.err = "none" =>
                       obj'.cache = FullCache(srvVer, srvJson))
                 /\ (last'.err # "none" => obj'.cache.st = "empty")))
          /\ (last'.inst = "self" =>
                \A k \in 1..Len(last'.calls) :
                    last'.calls[k].op = "fetch" =>
                        /\ last'.calls[k].href # NoHref
                        /\ last'.calls[k].href = obj'.meta.href
                        /\ (obj.meta = NoMeta =>
                              k > 1 /\ last'.calls[k - 1].op = "search"))]_vars

\* A first data access that searched, fetched and populated the cache.
C20_Witness ==
    /\ Ran({"data"})
    /\ obj.by = "name"
    /\ last.err = "none"
    /\ Len(last.calls) = 2
    /\ last.calls[1].op = "search"
    /\ last.calls[2].op = "fetch"
    /\ last.calls[2].href = obj.meta.href
    /\ obj.cache.st = "full"

\* C21 as stated: update() and modify_attribute() never change the payload of
\* a populated cache: a cache that is populated after one of them holds the
\* payload it held before, or the payload the handler fetched when it had none.
C21_CachedPayloadUntouched ==
    [][RanNext(UpdateOps \cup {"rename"}) /\ obj'.cache.st = "full" =>
          obj'.cache.json =
              (IF obj.cache.st = "full" THEN obj.cache.json ELSE srvJson)]_vars

\* The relations of a link table, and the relation a user-account operation
\* follows.
HasRel(rels, rel) == \E l \in rels : l.rel = rel
UserOps == {"enable_disable", "change_password", "change_engine_password"}

\* C22: export() on an instance whose link table has no export relation
\* raises nothing, returns [] and issues no create request, while with the
\* relation it issues one create request on the export link; an account
\* operation whose relation the link table lacks raises the
\* resource-link-missing error and sends nothing.
C22_ExportWithoutLinkIsEmpty ==
    [][/\ (RanNext({"export"}) /\ obj'.res.built =>
             IF HasRel(obj'.res.rels, "export")
             THEN /\ Count(last'.calls, "create") = 1
                  /\ last'.calls[Len(last'.calls)] =
                        Call("create", H \o "/export", NoEtag, EmptyJson)
                  /\ last'.reply # "[]"
             ELSE /\ last'.err = "none"
                  /\ last'.reply = "[]"
                  /\ Count(last'.calls, "create") = 0)
       /\ (RanNext(UserOps) /\ obj'.res.built
              /\ ~HasRel(obj'.res.rels, last'.op) =>
             /\ last'.err = "ResourceNotFound"
             /\ Count(last'.calls, "update") = 0)]_vars

\* An export just returned [] from a link table without export relation.
C22_Witness ==
    /\ Ran({"export"})
    /\ obj.res.built
    /\ ~HasRel(obj.res.rels, "export")
    /\ last.reply = "[]"

\* C23 as stated: the fetch counter grows exactly by the cache populations
\* performed: every handler adds to it the number of times it stored a fetched
\* pair in the cache, so an access served from a populated cache adds nothing.
C23_CounterCountsPopulations ==
    [][last'.inst = "self" => last'.counted = last'.populated]_vars

\* The token the instance knows when a handler starts, or learns from the
\* read the handler performs.
KnownToken == IF obj.cache.etag # NoEtag THEN obj.cache.etag ELSE srvVer

\* Every update request a handler of `ops` sent carries the known token.
SentWithToken(ops) ==
    RanNext(ops) =>
        \A k \in 1..Len(last'.calls) :
            last'.calls[k].op = "update" =>
                /\ last'.calls[k].etag # NoEtag
                /\ last'.calls[k].etag = KnownToken

\* C24 as stated: every update request that enable_disable(),
\* change_password() and change_engine_password() send carries the instance's
\* known version token; none is sent with an unknown or absent token.
C24_UserWritesCarryToken == [][SentWithToken(UserOps)]_vars

\* The part that holds: enable_disable() sends its request with the token.
EnableDisableCarriesToken == [][SentWithToken({"enable_disable"})]_vars

\* The payload an accepted update was built from is the cached one: the
\* handler was given neither payload nor token.
BuiltFromCache ==
    /\ last'.inst = "self"
    /\ last'.op \in {"update", "modify_attribute", "rename"}
    /\ (last'.op = "update" => ~last'.arg.hasJson)
    /\ obj.cache.st = "full"

\* C25 as stated: a cache that holds a token and a payload holds the payload
\* of the revision the token was issued for (checked for the token of the
\* current revision, the only one a handler can store), and an update built
\* from the cached payload and sent with the cached token is accepted only
\* over the revision that payload was read from.
C25_TokenAndPayloadSameRevision ==
    [][/\ (obj'.cache.st = "full" /\ obj'.cache.etag = srvVer' =>
             obj'.cache.json = srvJson')
       /\ (BuiltFromCache /\ srvVer' = srvVer + 1 =>
             obj.cache.json = srvJson)]_vars

\* C26 as stated: update(json=..., etag=...), with or without href, on an
\* instance that has an identity and whose cache attribute was never accessed
\* or was dropped by the previous update, sends exactly the update request
\* with the given payload and token and ends in the server's result or the
\* update error.
C26_UpdateWithOverridesFromEmpty ==
    [][/\ RanNext({"update_etag"})
       /\ last'.arg.hasJson
       /\ obj.meta # NoMeta
       /\ obj.cache.st = "absent"
       => /\ last'.calls = <<Call("update", obj.meta.href, last'.arg.etag,
                                  last'.arg.json)>>
          /\ last'.err \in {"none", "UpdateElementFailed"}]_vars

\* The handlers that only read through the cache.
CacheReads == {"data", "attr_by_name", "refresh"}

\* C27: when a data access or a forced refresh issued its fetch and ended in
\* an exception, the exception is fetch-failed and the cache is as it was: a
\* populated cache keeps its (token, payload) pair, and a cache without
\* payload is empty afterwards, so that the next access fetches again.
C27_FailedFetchKeepsCache ==
    [][/\ RanNext(CacheReads)
       /\ Count(last'.calls, "fetch") = 1
       /\ last'.err # "none"
       => /\ last'.err = "FetchElementFailed"
          /\ last'.calls[Len(last'.calls)].op = "fetch"
          /\ (obj.cache.st = "full" => obj'.cache = obj.cache)
          /\ (obj.cache.st # "full" =>
                obj'.cache = EmptyCache /\ needs_fetch(obj'.cache, FALSE))]_vars

\* A forced refresh of a populated cache just failed and the pair is kept.
C27_Witness ==
    /\ Ran({"refresh"})
    /\ last.err = "FetchElementFailed"
    /\ obj.cache.st = "full"
    /\ obj.cache.etag # NoEtag

\* C28: rename(new) leaves the instance's name as it was whenever it raises
\* (system-protected check, search, fetch or update); when it returns, the
\* server has accepted one update carrying the new name, the instance's name
\* is the new name and its href is the one it had, or resolved, before.
C28_RenameAfterAccept ==
    [][RanNext({"rename"}) =>
          /\ (last'.err # "none" => obj'.name = obj.name)
          /\ (last'.err = "none" =>
                /\ obj'.name = last'.arg["name"]
                /\ HasWrite(last'.calls)
                /\ WriteOf(last'.calls).op = "update"
                /\ WriteOf(last'.calls).json["name"] = last'.arg["name"]
                /\ srvVer' = srvVer + 1
                /\ srvJson'["name"] = last'.arg["name"]
                /\ obj'.meta.href = H
                /\ (obj.meta # NoMeta => obj'.meta.href = obj.meta.href))]_vars

\* A rename was just accepted for an instance that now carries the new name.
C28_Witness ==
    /\ Ran({"rename"})
    /\ last.err = "none"
    /\ obj.name = NewName
    /\ srvJson["name"] = NewName

\* A rename just failed at the update and the instance keeps the old name.
C28_WitnessRejected ==
    /\ Ran({"rename"})
    /\ last.err = "UpdateElementFailed"
    /\ obj.name # NewName

\* The message a failure descriptor is expected to carry for a response.
ExpectedMessage(r) ==
    IF r.json
    THEN LET d == IF r.dkind = "list" THEN JoinSpace(r.dlist)
                  ELSE IF r.dkind = "str" THEN r.dstr ELSE "None"
         IN  IF Truthy(r.message) /\ Truthy(d) THEN r.message \o " " \o d
             ELSE IF Truthy(d) THEN d ELSE r.message
    ELSE IF Truthy(r.text) THEN r.text
    ELSE "HTTP error code: " \o ToString(r.status_code) \o ", no message"

\* C29 as stated: the result attached to a failure built from an HTTP error
\* response carries the response's status code and a message that is never
\* absent or empty: message and/or joined details of a JSON body, the raw text
\* of a non-JSON body, the generated text for an empty body.
C29_FailureHasCodeAndMessage ==
    last.op = "create" /\ ~last.failure.ok =>
        /\ last.result.code = last.failure.status_code
        /\ last.result.msg = ExpectedMessage(last.failure)
        /\ Truthy(last.result.msg)

====
